---------------------------- MODULE Spec2Model ----------------------------
(***************************************************************************)
(* A model of the credential-protection and tenant-isolation core of the   *)
(* gw-swingpath/assistant backend:                                         *)
(*   - the PostgreSQL schema, its row-level-security policies and the      *)
(*     retention helper (src/server/db/schema.ts, the SQL part);           *)
(*   - the token cipher encryptToB64 / decryptFromB64 (src/unnamed/        *)
(*     part_001, second half);                                             *)
(*   - the configuration loader (src/unnamed/part_001, first half) and     *)
(*     the server's entry point (src/server/src/index.ts).                 *)
(***************************************************************************)
EXTENDS Integers, Sequences, FiniteSets, TLC

VARIABLES
    db,        \* the database: a set of rows of the nine tenant-scoped tables
    setting,   \* the session's app.tenant_id (Unset when never set)
    now,       \* the database clock, in days
    env,       \* process.env: TOKEN_ENCRYPTION_KEY and TOKEN_ENCRYPTION_KEY_ID
    sealed,    \* the last call of encryptToB64: its argument and its outcome
    wire,      \* the envelope as it is stored, and the field a bit of which was flipped
    opened,    \* the last call of decryptFromB64 (on wire) and its outcome
    measured,  \* a call of encryptToB64 followed by sizes only
    procEnv,   \* process.env as the configuration loader and index.ts read it
    files,     \* the files .env.local and .env of the working directory
    cfg,       \* the configuration module: whether it was evaluated, and what came of it
    server     \* the entry point: where start() is

dbVars == <<db, setting, now>>

cipherVars == <<env, sealed, wire, opened, measured>>

configVars == <<procEnv, files, cfg, server>>

vars == <<db, setting, now, env, sealed, wire, opened, measured,
          procEnv, files, cfg, server>>

(***************************************************************************)
(* Bounds of the model.                                                    *)
(***************************************************************************)
\* rows of the tables other than tenants that the database holds at once
MaxRows == 2

\* the last day of the clock
MaxTime == 3

\* tenants.id values (uuids) that sessions are scoped to
TenantIds == {1, 2}

\* primary-key values (uuids) of the rows of the other tables
RowIds == {1, 2}

\* values of the columns of the unique indexes over all tenants (slug,
\* provider_account_id)
Keys == {1, 2}

\* retention windows handed to prune_activity_logs, in days
RetentionDays == {1, 2}

\* SQL NULL, and the value of a column a table does not have
NULL == 0

\* app.tenant_id was never set in this session
Unset == 0

(***************************************************************************)
(* The schema: CREATE TABLE / CREATE UNIQUE INDEX / REFERENCES.            *)
(***************************************************************************)
Tables ==
    {"tenants", "users", "auth_accounts", "mailboxes", "tasklists",
     "messages", "routing_rules", "onboarding_sessions", "activity_logs"}

\* ... UNIQUE INDEX on columns that do not include tenant_id
GlobalUnique == {"tenants", "auth_accounts"}

\* ... UNIQUE INDEX on (tenant_id, <column>)
TenantUnique == {"users", "mailboxes", "tasklists", "messages"}

\* the table a row's second foreign key (user_id, mailbox_id) points into
Parent(tbl) ==
    CASE tbl \in {"auth_accounts", "mailboxes", "onboarding_sessions", "activity_logs"}
           -> "users"
      [] tbl \in {"messages", "routing_rules"} -> "mailboxes"
      [] OTHER -> "none"

\* the tables whose foreign key column is NOT NULL
RefNotNull == {"auth_accounts", "messages", "onboarding_sessions"}

\* REFERENCES ... ON DELETE CASCADE (the others: ON DELETE SET NULL)
RefCascade == {"auth_accounts", "messages", "onboarding_sessions"}

\* the tables with a created_at the model tracks
HasCreated == {"activity_logs"}

\* A row. For tenants the tenant column is id itself, so tenant = id.
Row(tbl, id, tenant, key, ref, created) ==
    [tbl |-> tbl, id |-> id, tenant |-> tenant, key |-> key, ref |-> ref,
     created |-> created]

RowsOf(d, tbl) == {r \in d : r.tbl = tbl}

(***************************************************************************)
(* Row-level security.                                                     *)
(***************************************************************************)

\* a session that falls back to the first tenant when nothing is set
CurrentSettingOrFirst(s) == [ok |-> TRUE, val |-> IF s = Unset THEN 1 ELSE s]

\* current_setting('app.tenant_id')::uuid raises when the setting is unset
\* (no missing_ok argument): ok says whether it returns, val what it returns.
CurrentSetting(s) == [ok |-> s # Unset, val |-> s]

\* deny_all_*: USING (false) WITH CHECK (false)
DenyAllUsing(r, s) == FALSE

DenyAllCheck(r, s) == FALSE

\* USING (true)
TenantAccessUsingAny(r, s) == TRUE

\* tenant_access_*: USING (tenant_id = current_setting(...)), id for tenants
TenantAccessUsing(r, s) == r.tenant = CurrentSetting(s).val

\* the tables whose tenant_access policy spells out a WITH CHECK clause
DeclaresWithCheck == Tables \ {"activity_logs"}

\* a policy without WITH CHECK that lets every new row in
TenantAccessCheckDeclaredOnly(r, s) ==
    IF r.tbl \in DeclaresWithCheck
    THEN r.tenant = CurrentSetting(s).val
    ELSE TRUE

\* tenant_access_*: WITH CHECK (...); PostgreSQL applies the USING
\* expression to new rows when a policy declares no WITH CHECK.
TenantAccessCheck(r, s) ==
    IF r.tbl \in DeclaresWithCheck
    THEN r.tenant = CurrentSetting(s).val
    ELSE TenantAccessUsing(r, s)

\* Both policies of a table are PERMISSIVE (the default): a row passes when
\* any of them does.
Visible(r, s) == DenyAllUsing(r, s) \/ TenantAccessUsing(r, s)

Admitted(r, s) == DenyAllCheck(r, s) \/ TenantAccessCheck(r, s)

(***************************************************************************)
(* Constraints: primary keys, unique indexes, NOT NULL, foreign keys.      *)
(* PostgreSQL checks them against every row of the table, whatever the     *)
(* row-level policies of the session.                                      *)
(***************************************************************************)
\* r against the other rows d of the database
UniqueViolation(d, r) ==
    \/ \E o \in RowsOf(d, r.tbl) : o.id = r.id
    \/ /\ r.tbl \in GlobalUnique
       /\ \E o \in RowsOf(d, r.tbl) : o.key = r.key
    \/ /\ r.tbl \in TenantUnique
       /\ \E o \in RowsOf(d, r.tbl) : o.tenant = r.tenant /\ o.key = r.key

NotNullViolation(r) == r.tbl \in RefNotNull /\ r.ref = NULL

ForeignKeyViolation(d, r) ==
    \/ /\ r.tbl # "tenants"
       /\ ~ \E t \in RowsOf(d, "tenants") : t.id = r.tenant
    \/ /\ Parent(r.tbl) # "none"
       /\ r.ref # NULL
       /\ ~ \E p \in RowsOf(d, Parent(r.tbl)) : p.id = r.ref

\* c references p: through tenant_id REFERENCES tenants(id), or through its
\* user_id / mailbox_id
RefersByTenant(c, p) == p.tbl = "tenants" /\ c.tbl # "tenants" /\ c.tenant = p.id

RefersByRef(c, p) == Parent(c.tbl) = p.tbl /\ c.ref # NULL /\ c.ref = p.id

\* the rows ON DELETE CASCADE removes together with the rows of gone
RECURSIVE CascadeClosure(_, _)
CascadeClosure(d, gone) ==
    LET more == {c \in d \ gone :
                    \E p \in gone :
                        \/ RefersByTenant(c, p)
                        \/ RefersByRef(c, p) /\ c.tbl \in RefCascade}
    IN  IF more = {} THEN gone ELSE CascadeClosure(d, gone \cup more)

\* d after deleting row r: the cascade, then ON DELETE SET NULL
DeleteRow(d, r) ==
    LET gone == CascadeClosure(d, {r})
        kept == d \ gone
    IN  {IF \E p \in gone : RefersByRef(c, p)
         THEN [c EXCEPT !.ref = NULL]
         ELSE c : c \in kept}

(***************************************************************************)
(* Statements of an application session. Each returns the database after   *)
(* it and what the caller sees: an outcome and, for a read, the rows.      *)
(* Order of the checks of a write, as PostgreSQL makes them: the row-level *)
(* WITH CHECK of the new row, then NOT NULL, then the unique indexes, then *)
(* the foreign keys.                                                       *)
(***************************************************************************)
Answer(d, outcome, rows) == [db |-> d, outcome |-> outcome, rows |-> rows]

\* the columns a table has, as the values a statement may give them
IdsOf(tbl) == IF tbl = "tenants" THEN TenantIds ELSE RowIds

\* tenants has no tenant_id: its tenant column is its id
TenantsOf(tbl, id) == IF tbl = "tenants" THEN {id} ELSE TenantIds

\* values of the columns of a unique index over (tenant_id, ...): one value
\* lets two rows of a tenant collide and rows of two tenants coexist
LocalKeys == {1}

KeysOf(tbl) ==
    IF tbl \in GlobalUnique THEN Keys
    ELSE IF tbl \in TenantUnique THEN LocalKeys
    ELSE {NULL}

RefsOf(tbl) == IF Parent(tbl) = "none" THEN {NULL} ELSE RowIds \cup {NULL}

\* created_at timestamptz NOT NULL DEFAULT now()
CreatedOf(tbl, clock) == IF tbl \in HasCreated THEN clock ELSE 0

\* the checks a new row version r goes through against the other rows d
WriteOutcome(d, s, r) ==
    IF ~ CurrentSetting(s).ok THEN "no_setting"
    ELSE IF ~ Admitted(r, s) THEN "rls"
    ELSE IF NotNullViolation(r) THEN "not_null"
    ELSE IF UniqueViolation(d, r) THEN "unique"
    ELSE IF ForeignKeyViolation(d, r) THEN "fk"
    ELSE "ok"

\* SELECT * FROM tbl [WHERE id = id]; id = NULL reads the whole table
ExecSelect(d, s, tbl, id) ==
    LET cands == {r \in RowsOf(d, tbl) : id = NULL \/ r.id = id}
    IN  IF cands = {} THEN Answer(d, "ok", {})
        ELSE IF ~ CurrentSetting(s).ok THEN Answer(d, "no_setting", {})
        ELSE Answer(d, "ok", {r \in cands : Visible(r, s)})

\* INSERT INTO r.tbl VALUES (r)
ExecInsert(d, s, r) ==
    LET o == WriteOutcome(d, s, r)
    IN  Answer(IF o = "ok" THEN d \cup {r} ELSE d, o, {})

\* the columns of tbl an UPDATE may set, and the values it may give them
ColsOf(tbl) ==
    {"tenant"} \cup (IF KeysOf(tbl) = {NULL} THEN {} ELSE {"key"})
               \cup (IF Parent(tbl) = "none" THEN {} ELSE {"ref"})

ValuesOf(tbl, col) ==
    CASE col = "tenant" -> TenantIds
      [] col = "key" -> KeysOf(tbl)
      [] OTHER -> RefsOf(tbl)

\* the row version UPDATE ... SET col = v makes of old (for tenants the
\* tenant column is id)
Updated(old, col, v) ==
    CASE col = "tenant" ->
             [old EXCEPT !.tenant = v,
                         !.id = IF old.tbl = "tenants" THEN v ELSE old.id]
      [] col = "key" -> [old EXCEPT !.key = v]
      [] OTHER -> [old EXCEPT !.ref = v]

\* UPDATE tbl SET col = v WHERE id = id. Rows the USING expression hides
\* are skipped silently; NO ACTION keeps a referenced tenants.id in place.
ExecUpdate(d, s, tbl, id, col, v) ==
    LET cands == {r \in RowsOf(d, tbl) : r.id = id}
    IN  IF cands = {} THEN Answer(d, "none", {})
        ELSE IF ~ CurrentSetting(s).ok THEN Answer(d, "no_setting", {})
        ELSE LET old == CHOOSE r \in cands : TRUE
                 new == Updated(old, col, v)
                 rest == d \ {old}
                 o == WriteOutcome(rest, s, new)
                 held == new.id # old.id /\ \E c \in rest : RefersByTenant(c, old)
             IN  IF ~ Visible(old, s) THEN Answer(d, "none", {})
                 ELSE IF o # "ok" THEN Answer(d, o, {})
                 ELSE IF held THEN Answer(d, "fk", {})
                 ELSE Answer(rest \cup {new}, "ok", {})

\* DELETE FROM tbl WHERE id = id
ExecDelete(d, s, tbl, id) ==
    LET cands == {r \in RowsOf(d, tbl) : r.id = id}
    IN  IF cands = {} THEN Answer(d, "none", {})
        ELSE IF ~ CurrentSetting(s).ok THEN Answer(d, "no_setting", {})
        ELSE LET old == CHOOSE r \in cands : TRUE
             IN  IF ~ Visible(old, s) THEN Answer(d, "none", {})
                 ELSE Answer(DeleteRow(d, old), "ok", {})

\* prune_activity_logs(p_retention_days): DELETE FROM activity_logs WHERE
\* created_at < now() - make_interval(days => p_retention_days).
\* The function is SECURITY INVOKER: in the maintenance context (the table
\* owner, or a BYPASSRLS role: the policies are not FORCEd) it sees every
\* row, in an application session the policies filter the rows it deletes.
Cutoff(clock, days) == clock - days

\* created_at <= cutoff
ExpiredInclusive(r, clock, days) == r.created <= Cutoff(clock, days)

\* created_at < now() - make_interval(days => p_retention_days)
Expired(r, clock, days) == r.created < Cutoff(clock, days)

ExecPrune(d, ctx, s, clock, days) ==
    LET logs == RowsOf(d, "activity_logs")
        old == {r \in logs : Expired(r, clock, days)}
    IN  IF ctx = "maintenance" THEN Answer(d \ old, "void", {})
        ELSE IF logs = {} THEN Answer(d, "void", {})
        ELSE IF ~ CurrentSetting(s).ok THEN Answer(d, "no_setting", {})
        ELSE Answer(d \ {r \in old : Visible(r, s)}, "void", {})

\* RETURNS void: the value SELECT prune_activity_logs(n) hands back is no
\* number
Void == -1

\* what a call hands back to its caller: whether it raised, and the value
PruneReturns(d, ctx, s, clock, days) ==
    [raised |-> ExecPrune(d, ctx, s, clock, days).outcome # "void",
     value |-> Void]

(***************************************************************************)
(* The values the cipher's variables start from.                           *)
(***************************************************************************)
\* the result of a call: a value, or the error it threw
Ok(v) == [ok |-> TRUE, err |-> "", val |-> v]

Fail(e) == [ok |-> FALSE, err |-> e, val |-> <<>>]

\* an environment variable: undefined, or a string
Absent == [set |-> FALSE, val |-> <<>>]

Present(v) == [set |-> TRUE, val |-> v]

NoEnv == [key |-> Absent, keyId |-> Absent]

NotSealed == [called |-> FALSE, plaintext |-> <<>>, iv |-> <<>>, env |-> NoEnv, out |-> Fail("")]

NoWire == [text |-> <<>>, flipped |-> "none"]

NotOpened == [called |-> FALSE, env |-> NoEnv, out |-> Fail("")]

NotMeasured == [called |-> FALSE, bytes |-> 0, env |-> NoEnv, ok |-> FALSE, payload |-> 0, length |-> 0]

InitCipher ==
    /\ env = NoEnv
    /\ sealed = NotSealed
    /\ wire = NoWire
    /\ opened = NotOpened
    /\ measured = NotMeasured

(***************************************************************************)
(* The state machine of the database. A statement that fails, or that the  *)
(* policies make a no-op, leaves the database as it was. A read changes    *)
(* nothing: what it returns is ExecSelect in the state it is issued in.    *)
(***************************************************************************)
InitDb ==
    /\ db = {}
    /\ setting = Unset
    /\ now = 0

\* the variables of process.env that the model follows; the other fields of
\* the schema (APP_BASE_URL, LOG_LEVEL, CORS_ORIGIN, RETENTION_DAYS, the
\* GOOGLE_ and PUBSUB_ fields, OPENAI_MODEL, OPENAI_API_BASE,
\* TWILIO_WEBHOOK_SECRET) are held at valid values and raise no issue
Names ==
    {"NODE_ENV", "PORT", "DATABASE_URL", "TOKEN_ENCRYPTION_KEY",
     "TOKEN_ENCRYPTION_KEY_ID", "GOOGLE_APPLICATION_CREDENTIALS",
     "OPENAI_API_KEY", "TWILIO_ACCOUNT_SID", "TWILIO_AUTH_TOKEN",
     "TWILIO_MESSAGING_SERVICE_SID", "TWILIO_FROM_NUMBER",
     "TWILIO_DEFAULT_SMS_TO", "ALLOW_DEFAULT_SMS_TO_IN_PROD",
     "FEATURE_ENABLE_SMS", "FEATURE_ENABLE_TASKS", "FEATURE_ENABLE_PUSH",
     "FEATURE_ENABLE_CLASSIFIER"}

\* a process started with none of them defined
NoVariables == [n \in Names |-> Absent]

\* an env file that does not exist; one that exists holds one assignment
NoFile == [exists |-> FALSE, name |-> "", val |-> <<>>]

\* the configuration module before anything imports it
NotLoaded ==
    [state |-> "unloaded", before |-> NoVariables, thrown |-> "none",
     issues |-> {}, data |-> <<>>, built |-> <<>>]

InitConfig ==
    /\ procEnv = NoVariables
    /\ files = [local |-> NoFile, env |-> NoFile]
    /\ cfg = NotLoaded
    /\ server = "idle"

Init == InitDb /\ InitCipher /\ InitConfig

\* SET app.tenant_id = t: the start of a unit of work bound to tenant t
SetTenant(t) ==
    /\ setting' = t
    /\ UNCHANGED <<db, now, cipherVars, configVars>>

\* a connection handed out with no tenant bound to it
ResetTenant ==
    /\ setting' = Unset
    /\ UNCHANGED <<db, now, cipherVars, configVars>>

Insert(tbl, id, tenant, key, ref) ==
    LET r == Row(tbl, id, tenant, key, ref, CreatedOf(tbl, now))
    IN  /\ tbl = "tenants" \/ Cardinality({x \in db : x.tbl # "tenants"}) < MaxRows
        /\ db' = ExecInsert(db, setting, r).db
        /\ UNCHANGED <<setting, now, cipherVars, configVars>>

Update(tbl, id, col, v) ==
    /\ db' = ExecUpdate(db, setting, tbl, id, col, v).db
    /\ UNCHANGED <<setting, now, cipherVars, configVars>>

Delete(tbl, id) ==
    /\ db' = ExecDelete(db, setting, tbl, id).db
    /\ UNCHANGED <<setting, now, cipherVars, configVars>>

Prune(ctx, days) ==
    /\ db' = ExecPrune(db, ctx, setting, now, days).db
    /\ UNCHANGED <<setting, now, cipherVars, configVars>>

\* a day passes
Tick ==
    /\ now < MaxTime
    /\ now' = now + 1
    /\ UNCHANGED <<db, setting, cipherVars, configVars>>

\* the writes of an application session on the tables tbls
InsertInto(tbls) ==
    \E tbl \in tbls :
        \E id \in IdsOf(tbl), k \in KeysOf(tbl), f \in RefsOf(tbl) :
            \E t \in TenantsOf(tbl, id) : Insert(tbl, id, t, k, f)

UpdateIn(tbls) ==
    \E tbl \in tbls :
        \E id \in IdsOf(tbl), col \in ColsOf(tbl) :
            \E v \in ValuesOf(tbl, col) : Update(tbl, id, col, v)

DeleteFrom(tbls) == \E tbl \in tbls : \E id \in IdsOf(tbl) : Delete(tbl, id)

Session ==
    \/ \E t \in TenantIds : SetTenant(t)
    \/ ResetTenant

\* Tenant isolation: application sessions on all nine tables.
NextIsolation ==
    \/ Session
    \/ InsertInto(Tables)
    \/ UpdateIn(Tables)
    \/ DeleteFrom(Tables)

SpecIsolation == Init /\ [][NextIsolation]_vars

\* Retention: the activity log, the tables it references, the clock and
\* the pruner in both contexts.
RetentionTables == {"tenants", "users", "activity_logs"}

Contexts == {"maintenance", "app"}

NextRetention ==
    \/ Session
    \/ InsertInto(RetentionTables)
    \/ UpdateIn(RetentionTables)
    \/ DeleteFrom(RetentionTables)
    \/ \E ctx \in Contexts, days \in RetentionDays : Prune(ctx, days)
    \/ Tick

SpecRetention == Init /\ [][NextRetention]_vars

(***************************************************************************)
(* What a session can ask of the database, and what it is answered.        *)
(***************************************************************************)
\* the rows of tenant t, and the rows of everybody else
Own(d, t) == {r \in d : r.tenant = t}

Others(d, t) == {r \in d : r.tenant # t}

Logs(d) == RowsOf(d, "activity_logs")

\* the statements a session may issue, as records
SelectOps ==
    UNION {{[kind |-> "select", tbl |-> tbl, id |-> id] :
               id \in IdsOf(tbl) \cup {NULL}} : tbl \in Tables}

InsertOps ==
    UNION {{[kind |-> "insert",
             row |-> Row(tbl, id, IF tbl = "tenants" THEN id ELSE t, k, f,
                         CreatedOf(tbl, now))] :
               id \in IdsOf(tbl), t \in TenantIds, k \in KeysOf(tbl),
               f \in RefsOf(tbl)} : tbl \in Tables}

UpdateOps ==
    UNION {UNION {{[kind |-> "update", tbl |-> tbl, id |-> id, col |-> col, v |-> v] :
                      id \in IdsOf(tbl), v \in ValuesOf(tbl, col)} :
                  col \in ColsOf(tbl)} : tbl \in Tables}

DeleteOps ==
    UNION {{[kind |-> "delete", tbl |-> tbl, id |-> id] : id \in IdsOf(tbl)} :
              tbl \in Tables}

\* what statement op answers in database d to a session whose setting is s
Exec(d, s, op) ==
    CASE op.kind = "select" -> ExecSelect(d, s, op.tbl, op.id)
      [] op.kind = "insert" -> ExecInsert(d, s, op.row)
      [] op.kind = "update" -> ExecUpdate(d, s, op.tbl, op.id, op.col, op.v)
      [] OTHER -> ExecDelete(d, s, op.tbl, op.id)

\* the row an UPDATE of a visible row would write
WouldWrite(d, s, op) ==
    {Updated(r, op.col, op.v) :
        r \in {x \in RowsOf(d, op.tbl) : x.id = op.id /\ Visible(x, s)}}

\* d satisfies every constraint of the schema
Consistent(d) ==
    /\ \A r \in d : ~ UniqueViolation(d \ {r}, r)
    /\ \A r \in d : ~ NotNullViolation(r) /\ ~ ForeignKeyViolation(d, r)
    /\ \A r \in d : r.tbl = "tenants" => r.tenant = r.id

\* The database never leaves the states the schema allows.
ConsistentDb == Consistent(db)

(***************************************************************************)
(* Tenant isolation.                                                       *)
(***************************************************************************)
\* C1: on every tenant-scoped table and in every reachable database state,
\* a read of a session whose app.tenant_id is A returns only rows whose
\* tenant column (id for tenants) is A; a query for the id of a row of
\* another tenant returns no row.
C1_ReadsReturnOwnRowsOnly ==
    /\ \A op \in SelectOps :
           \A r \in Exec(db, setting, op).rows : r.tenant = setting
    /\ \A r \in Others(db, setting) :
           ExecSelect(db, setting, r.tbl, r.id).rows = {}

\* a session scoped to tenant 1 reads a table that holds a row of each
\* tenant: it gets its own row, and nothing for the other row's id
C1_Witness ==
    /\ setting = 1
    /\ \E tbl \in Tables \ {"tenants"} :
           \E a \in RowsOf(db, tbl), b \in RowsOf(db, tbl) :
               /\ a.tenant = 1 /\ b.tenant = 2
               /\ ExecSelect(db, setting, tbl, NULL).rows = {a}
               /\ ExecSelect(db, setting, tbl, b.id).rows = {}

C3_NoSignalFromOtherTenants ==
    setting \in TenantIds /\ Consistent(Own(db, setting)) =>
        \A op \in SelectOps \cup InsertOps \cup UpdateOps \cup DeleteOps :
            LET here == Exec(db, setting, op)
                alone == Exec(Own(db, setting), setting, op)
            IN  here.outcome = alone.outcome /\ here.rows = alone.rows

\* C4: while app.tenant_id is unset no read returns a row and no INSERT,
\* UPDATE or DELETE takes effect, on any tenant-scoped table.
C4_UnsetDeniesAll ==
    setting = Unset =>
        /\ \A op \in SelectOps : Exec(db, setting, op).rows = {}
        /\ \A op \in InsertOps \cup UpdateOps \cup DeleteOps :
               LET a == Exec(db, setting, op)
               IN  a.db = db /\ a.outcome # "ok"

\* the setting is unset while both tenants have rows: reading them fails
C4_Witness ==
    /\ setting = Unset
    /\ \A t \in TenantIds : Own(db, t) # {}
    /\ \E r \in db : r.tbl # "tenants"
    /\ \A r \in db : ExecSelect(db, setting, r.tbl, r.id).outcome = "no_setting"

(***************************************************************************)
(* The activity log and its retention.                                     *)
(***************************************************************************)
\* C9: in a session scoped to a tenant no UPDATE or DELETE changes or
\* removes an activity_logs row.
C9_ActivityLogAppendOnly ==
    setting \in TenantIds =>
        \A op \in UpdateOps \cup DeleteOps :
            Logs(db) \subseteq Exec(db, setting, op).db

\* C10: run in the maintenance context, prune_activity_logs(days) removes
\* the activity_logs rows, of every tenant, created strictly before
\* now - days, and nothing else: a row created at the cutoff stays.
C10_PruneDeletesExactlyExpired ==
    \A days \in RetentionDays :
        LET after == ExecPrune(db, "maintenance", setting, now, days).db
        IN  /\ after \subseteq db
            /\ \A r \in db :
                   r \in after <=>
                       (r.tbl # "activity_logs" \/ r.created >= now - days)

\* the log holds a row of one tenant older than the cutoff and a row of
\* another tenant created at the cutoff: pruning removes just the first
C10_Witness ==
    \E a \in Logs(db), b \in Logs(db) :
        /\ a.tenant # b.tenant
        /\ a.tenant # setting
        /\ a.created < now - 1
        /\ b.created = now - 1
        /\ ExecPrune(db, "maintenance", setting, now, 1).db = db \ {a}

\* C11: prune_activity_logs returns the number of rows it deleted, and a
\* second call with the same window right after the first deletes nothing
\* and returns 0.
C11_PruneReturnsCount ==
    \A days \in RetentionDays :
        LET first == ExecPrune(db, "maintenance", setting, now, days)
            second == ExecPrune(first.db, "maintenance", setting, now, days)
        IN  /\ PruneReturns(db, "maintenance", setting, now, days).value
                   = Cardinality(db \ first.db)
            /\ second.db = first.db
            /\ PruneReturns(first.db, "maintenance", setting, now, days).value = 0

\* the idempotent half of C11 alone
PruneIdempotent ==
    \A days \in RetentionDays, ctx \in Contexts :
        LET first == ExecPrune(db, ctx, setting, now, days)
        IN  ExecPrune(first.db, ctx, setting, now, days).db = first.db

(***************************************************************************)
(* The token cipher: encryptToB64 / decryptFromB64.                        *)
(*                                                                         *)
(* A JavaScript string is a sequence of UTF-16 code units, a Buffer a      *)
(* sequence of bytes, a text (base64, JSON) a sequence of character codes. *)
(***************************************************************************)
IV_LENGTH == 12

AUTH_TAG_LENGTH == 16

KEY_LENGTH == 32

\* 16 * 1024, the length guard of encryptToB64
MAX_PAYLOAD == 16384

Min(a, b) == IF a < b THEN a ELSE b

\* the pieces f[lo] .. f[hi] one after another
RECURSIVE Concat(_, _, _)
Concat(f, lo, hi) ==
    IF lo > hi THEN <<>>
    ELSE IF lo = hi THEN f[lo]
    ELSE LET mid == (lo + hi) \div 2
         IN  Concat(f, lo, mid) \o Concat(f, mid + 1, hi)

Flatten(f) == Concat(f, 1, Len(f))

\* the sequence f with its elements worked out
Tuple(f) == f \o <<>>

RECURSIVE SumOf(_, _, _)
SumOf(f, lo, hi) ==
    IF lo > hi THEN 0
    ELSE IF lo = hi THEN f[lo]
    ELSE LET mid == (lo + hi) \div 2
         IN  SumOf(f, lo, mid) + SumOf(f, mid + 1, hi)

\* ---- bits ----
RECURSIVE XorN(_, _, _)
XorN(a, b, n) ==
    IF n = 0 THEN 0
    ELSE (((a % 2) + (b % 2)) % 2) + 2 * XorN(a \div 2, b \div 2, n - 1)

Xor(a, b) == XorN(a, b, 8)

Pow2(k) == CASE k = 0 -> 1 [] k = 1 -> 2 [] k = 2 -> 4 [] k = 3 -> 8
             [] k = 4 -> 16 [] k = 5 -> 32 [] k = 6 -> 64 [] OTHER -> 128

FlipBit(byte, k) ==
    IF (byte \div Pow2(k)) % 2 = 1 THEN byte - Pow2(k) ELSE byte + Pow2(k)

\* ---- UTF-8, as Buffer.from(s, 'utf8') and buf.toString('utf8') do it ----
IsHigh(u) == u >= 55296 /\ u <= 56319

IsLow(u) == u >= 56320 /\ u <= 57343

IsCont(b) == b >= 128 /\ b <= 191

\* U+FFFD, what an unpaired surrogate or an invalid byte sequence becomes
REPLACEMENT == 65533

Utf8OfCodePoint(cp) ==
    IF cp < 128 THEN <<cp>>
    ELSE IF cp < 2048 THEN <<192 + (cp \div 64), 128 + (cp % 64)>>
    ELSE IF cp < 65536
         THEN <<224 + (cp \div 4096), 128 + ((cp \div 64) % 64), 128 + (cp % 64)>>
    ELSE <<240 + (cp \div 262144), 128 + ((cp \div 4096) % 64),
           128 + ((cp \div 64) % 64), 128 + (cp % 64)>>

\* a high surrogate followed by a low one is one code point; any other
\* surrogate is written as U+FFFD
Utf8Encode(units) ==
    LET n == Len(units)
        piece(i) ==
            LET u == units[i]
            IN  IF IsHigh(u) /\ i < n /\ IsLow(units[Min(i + 1, n)])
                THEN Utf8OfCodePoint(65536 + ((u - 55296) * 1024)
                                           + (units[i + 1] - 56320))
                ELSE IF IsLow(u) /\ i > 1 /\ IsHigh(units[IF i > 1 THEN i - 1 ELSE 1])
                THEN <<>>
                ELSE IF IsHigh(u) \/ IsLow(u) THEN Utf8OfCodePoint(REPLACEMENT)
                ELSE Utf8OfCodePoint(u)
    IN  Flatten([i \in 1..n |-> piece(i)])

UnitsOfCodePoint(cp) ==
    IF cp < 65536 THEN <<cp>>
    ELSE <<55296 + ((cp - 65536) \div 1024), 56320 + ((cp - 65536) % 1024)>>

\* the code point that starts bytes and the bytes it takes; an invalid
\* sequence gives U+FFFD and takes one byte
Utf8First(bytes) ==
    LET b == bytes[1]
        n == Len(bytes)
        c(i) == bytes[i] - 128
        bad == [cp |-> REPLACEMENT, len |-> 1]
    IN  IF b < 128 THEN [cp |-> b, len |-> 1]
        ELSE IF b >= 194 /\ b <= 223 /\ n >= 2 /\ IsCont(bytes[2])
             THEN [cp |-> (b - 192) * 64 + c(2), len |-> 2]
        ELSE IF b >= 224 /\ b <= 239 /\ n >= 3 /\ IsCont(bytes[2]) /\ IsCont(bytes[3])
             THEN LET cp == (b - 224) * 4096 + c(2) * 64 + c(3)
                  IN  IF cp < 2048 \/ IsHigh(cp) \/ IsLow(cp) THEN bad
                      ELSE [cp |-> cp, len |-> 3]
        ELSE IF b >= 240 /\ b <= 244 /\ n >= 4
                /\ IsCont(bytes[2]) /\ IsCont(bytes[3]) /\ IsCont(bytes[4])
             THEN LET cp == (b - 240) * 262144 + c(2) * 4096 + c(3) * 64 + c(4)
                  IN  IF cp < 65536 \/ cp > 1114111 THEN bad
                      ELSE [cp |-> cp, len |-> 4]
        ELSE bad

\* a byte is taken by the sequence that a lead byte before it starts, or
\* stands for itself
Utf8Decode(bytes) ==
    LET n == Len(bytes)
        first(i) == Utf8First(SubSeq(bytes, i, Min(i + 3, n)))
        taken(i) == \E j \in 1..3 : j < i /\ first(i - j).len > j
        piece(i) == IF taken(i) THEN <<>> ELSE UnitsOfCodePoint(first(i).cp)
    IN  Flatten([i \in 1..n |-> piece(i)])

\* ---- base64, as buf.toString('base64') and Buffer.from(s, 'base64') ----
B64Char(i) ==
    IF i < 26 THEN 65 + i
    ELSE IF i < 52 THEN 97 + (i - 26)
    ELSE IF i < 62 THEN 48 + (i - 52)
    ELSE IF i = 62 THEN 43 ELSE 47

B64_PAD == 61

\* the sextet of a character: '-' and '_' count as '+' and '/'; -1 for a
\* character that is no base64 digit
B64Value(c) ==
    IF c >= 65 /\ c <= 90 THEN c - 65
    ELSE IF c >= 97 /\ c <= 122 THEN c - 97 + 26
    ELSE IF c >= 48 /\ c <= 57 THEN c - 48 + 52
    ELSE IF c = 43 \/ c = 45 THEN 62
    ELSE IF c = 47 \/ c = 95 THEN 63
    ELSE -1

Base64Encode(bytes) ==
    LET n == Len(bytes)
        byte(i) == IF i <= n THEN bytes[i] ELSE 0
        char(k) ==
            LET g == 3 * ((k - 1) \div 4)
                pos == (k - 1) % 4
            IN  IF pos = 0 THEN B64Char(byte(g + 1) \div 4)
                ELSE IF pos = 1
                THEN B64Char(((byte(g + 1) % 4) * 16) + (byte(g + 2) \div 16))
                ELSE IF pos = 2
                THEN IF g + 2 > n THEN B64_PAD
                     ELSE B64Char(((byte(g + 2) % 16) * 4) + (byte(g + 3) \div 64))
                ELSE IF g + 3 > n THEN B64_PAD
                     ELSE B64Char(byte(g + 3) % 64)
    IN  Tuple([k \in 1..(4 * ((n + 2) \div 3)) |-> char(k)])

IsB64Digit(c) == B64Value(c) >= 0

\* the sextets of the base64 digits of chars, up to the first '='; other
\* characters are skipped
Sextets(chars) ==
    LET pads == {i \in 1..Len(chars) : chars[i] = B64_PAD}
        stop == IF pads = {} THEN Len(chars) + 1
                ELSE CHOOSE i \in pads : \A j \in pads : i <= j
        digits == SelectSeq(SubSeq(chars, 1, stop - 1), IsB64Digit)
    IN  Tuple([i \in 1..Len(digits) |-> B64Value(digits[i])])

BytesOfSextets(x) ==
    LET byte(k) ==
            LET q == ((8 * (k - 1)) \div 6) + 1
                r == (8 * (k - 1)) % 6
            IN  IF r = 0 THEN (x[q] * 4) + (x[q + 1] \div 16)
                ELSE IF r = 2 THEN ((x[q] % 16) * 16) + (x[q + 1] \div 4)
                ELSE ((x[q] % 4) * 64) + x[q + 1]
    IN  Tuple([k \in 1..((6 * Len(x)) \div 8) |-> byte(k)])

Base64Decode(chars) == BytesOfSextets(Sextets(chars))

\* ---- JSON of an EncryptedPayload ----
QUOTE == 34

BACKSLASH == 92

JsonEscape(units) ==
    Flatten([i \in 1..Len(units) |->
                IF units[i] = QUOTE \/ units[i] = BACKSLASH
                THEN <<BACKSLASH, units[i]>>
                ELSE <<units[i]>>])

\* the names of the four fields, as text
NameKeyId == <<107, 101, 121, 73, 100>>

NameIv == <<105, 118>>

NameCiphertext == <<99, 105, 112, 104, 101, 114, 116, 101, 120, 116>>

NameTag == <<116, 97, 103>>

JsonString(units) == <<QUOTE>> \o JsonEscape(units) \o <<QUOTE>>

JsonMember(name, units) == JsonString(name) \o <<58>> \o JsonString(units)

\* JSON.stringify(payload): {"keyId":"..","iv":"..","ciphertext":"..","tag":".."}
JsonStringify(payload) ==
    <<123>> \o JsonMember(NameKeyId, payload.keyId)
            \o <<44>> \o JsonMember(NameIv, payload.iv)
            \o <<44>> \o JsonMember(NameCiphertext, payload.ciphertext)
            \o <<44>> \o JsonMember(NameTag, payload.tag)
            \o <<125>>

\* the backslashes that stand right before position i
BackslashesBefore(text, i) ==
    LET others == {j \in 1..(i - 1) : text[j] # BACKSLASH}
    IN  IF others = {} THEN i - 1
        ELSE (i - 1) - (CHOOSE j \in others : \A k \in others : k <= j)

\* a character that an odd run of backslashes escapes
Escaped(text, i) ==
    /\ i > 1
    /\ text[IF i > 1 THEN i - 1 ELSE 1] = BACKSLASH
    /\ BackslashesBefore(text, i) % 2 = 1

\* the string literals of a JSON text, in order, unescaped
JsonStrings(text) ==
    LET isQuote(i) == text[i] = QUOTE /\ ~ Escaped(text, i)
        quotes == SelectSeq(Tuple([i \in 1..Len(text) |-> i]), isQuote)
        body(from, to) ==
            Flatten([i \in 1..(to - from - 1) |->
                        IF text[from + i] = BACKSLASH /\ ~ Escaped(text, from + i)
                        THEN <<>> ELSE <<text[from + i]>>])
    IN  Tuple([k \in 1..(Len(quotes) \div 2) |->
                  body(quotes[(2 * k) - 1], quotes[2 * k])])

\* JSON.parse(raw) as EncryptedPayload: the four members by name
JsonParse(text) ==
    LET strs == JsonStrings(text)
        at(name) == {i \in 1..Len(strs) : i % 2 = 1 /\ i < Len(strs) /\ strs[i] = name}
        get(name) == strs[(CHOOSE i \in at(name) : TRUE) + 1]
    IN  IF text = <<>> \/ Head(text) # 123 \/ text[Len(text)] # 125
           \/ Len(strs) % 2 = 1
           \/ \E name \in {NameKeyId, NameIv, NameCiphertext, NameTag} : at(name) = {}
        THEN Fail("SyntaxError")
        ELSE Ok([keyId |-> get(NameKeyId), iv |-> get(NameIv),
                 ciphertext |-> get(NameCiphertext), tag |-> get(NameTag)])

(***************************************************************************)
(* AES-256-GCM of node:crypto. The block cipher itself is not modelled:    *)
(* GcmCrypt and GcmTag are a stand-in with the properties of GCM that the  *)
(* code relies on. Encryption and decryption are the same keystream XOR,   *)
(* the keystream is a function of key and nonce, and the tag is a function *)
(* of key, nonce and ciphertext in which every byte counts with an odd     *)
(* weight: half of the tag ties the ciphertext to the key, the other half  *)
(* to the nonce, so that no change of one bit of the nonce or of the       *)
(* ciphertext leaves the tag as it was, whatever the key.                  *)
(***************************************************************************)
Digest(bytes) ==
    SumOf([i \in 1..Len(bytes) |-> bytes[i] * ((2 * i) - 1)], 1, Len(bytes)) % 256

KeyStream(key, iv, i) == (Digest(key) + (3 * Digest(iv)) + (7 * i)) % 256

\* cipher.update / decipher.update: the data under the keystream
GcmCrypt(key, iv, data) ==
    Tuple([i \in 1..Len(data) |-> Xor(data[i], KeyStream(key, iv, i))])

\* cipher.getAuthTag(): AUTH_TAG_LENGTH bytes
GcmTag(key, iv, ct) ==
    LET keyed == ((5 * Digest(key)) + Digest(ct) + Len(ct)) % 256
        nonced == ((3 * Digest(iv)) + (7 * Digest(ct))) % 256
    IN  Tuple([j \in 1..AUTH_TAG_LENGTH |->
                  ((IF j % 2 = 1 THEN keyed ELSE nonced) + j) % 256])

\* a final() that authenticates nothing
GcmFinalUnchecked(key, iv, ct, tag) == TRUE

\* decipher.final(): it throws unless the tag handed to setAuthTag is the
\* tag of what was deciphered
GcmFinal(key, iv, ct, tag) == tag = GcmTag(key, iv, ct)

\* ---- getKey ----
DefaultKeyId == <<100, 101, 102, 97, 117, 108, 116>>

\* a || b on an environment variable: undefined and '' are both falsy
Falsy(v) == ~ v.set \/ v.val = <<>>

GetKey(e) ==
    LET keyId == IF Falsy(e.keyId) THEN DefaultKeyId ELSE e.keyId.val
        key == Base64Decode(e.key.val)
    IN  IF Falsy(e.key) THEN Fail("TOKEN_ENCRYPTION_KEY not set")
        ELSE IF Len(key) # KEY_LENGTH
        THEN Fail("TOKEN_ENCRYPTION_KEY must be 32 bytes (base64 of 32 bytes)")
        ELSE [ok |-> TRUE, err |-> "", val |-> <<>>, key |-> key, keyId |-> keyId]

\* ---- encryptToB64, with the bytes randomBytes(IV_LENGTH) returned ----
SealedPayload(key, keyId, iv, plaintext) ==
    LET ciphertext == GcmCrypt(key, iv, Utf8Encode(plaintext))
        tag == GcmTag(key, iv, ciphertext)
    IN  [keyId |-> keyId,
         iv |-> Base64Encode(iv),
         ciphertext |-> Base64Encode(ciphertext),
         tag |-> Base64Encode(tag)]

EncryptToB64(e, plaintext, iv) ==
    LET k == GetKey(e)
        json == JsonStringify(SealedPayload(k.key, k.keyId, iv, plaintext))
        size == Len(Utf8Encode(json))
    IN  IF ~ k.ok THEN Fail(k.err)
        ELSE IF size > MAX_PAYLOAD THEN Fail("Encrypted payload exceeds 16KB")
        ELSE Ok(Base64Encode(Utf8Encode(json)))

\* ---- decryptFromB64 ----
\* toString('latin1'): one code unit per byte
Latin1ToString(bytes) == bytes

\* Buffer.concat([...]).toString('utf8')
PlaintextToString(bytes) == Utf8Decode(bytes)

DecryptFromB64(e, b64) ==
    LET k == GetKey(e)
        raw == Utf8Decode(Base64Decode(b64))
        parsed == JsonParse(raw)
        iv == Base64Decode(parsed.val.iv)
        tag == Base64Decode(parsed.val.tag)
        ciphertext == Base64Decode(parsed.val.ciphertext)
        updated == GcmCrypt(k.key, iv, ciphertext)
    IN  IF ~ k.ok THEN Fail(k.err)
        ELSE IF ~ parsed.ok THEN Fail(parsed.err)
        ELSE IF Len(iv) = 0 THEN Fail("Invalid initialization vector")
        ELSE IF Len(tag) # AUTH_TAG_LENGTH THEN Fail("Invalid authentication tag length")
        ELSE IF ~ GcmFinal(k.key, iv, ciphertext, tag)
        THEN Fail("Unsupported state or unable to authenticate data")
        ELSE Ok(PlaintextToString(updated))

\* ---- the same call, followed by sizes only ----
Base64Length(n) == 4 * ((n + 2) \div 3)

\* the bytes of JSON.stringify(payload) for a key id of keyIdLen characters
\* (none of them escaped) and a plaintext of n bytes
PayloadLength(keyIdLen, n) ==
    Len(JsonStringify([keyId |-> <<>>, iv |-> <<>>, ciphertext |-> <<>>, tag |-> <<>>]))
        + keyIdLen + Base64Length(IV_LENGTH) + Base64Length(n)
        + Base64Length(AUTH_TAG_LENGTH)

\* encryptToB64 on a plaintext of n bytes: whether it returns, the size it
\* measures, and the length of the string it returns
EncryptLength(e, n) ==
    LET k == GetKey(e)
        size == PayloadLength(Len(k.keyId), n)
    IN  IF ~ k.ok THEN [ok |-> FALSE, payload |-> 0, length |-> 0]
        ELSE IF size > MAX_PAYLOAD THEN [ok |-> FALSE, payload |-> size, length |-> 0]
        ELSE [ok |-> TRUE, payload |-> size, length |-> Base64Length(size)]

(***************************************************************************)
(* The inputs of the cipher.                                               *)
(***************************************************************************)
\* code units a plaintext is made of: 'A', the euro sign (three bytes of
\* UTF-8), and the two halves of U+1F600 (four bytes when paired)
Units == {65, 8364, 55357, 56832}

\* code units of a plaintext
MaxPlainLen == 2

Plaintexts == UNION {[1..n -> Units] : n \in 0..MaxPlainLen}

\* what randomBytes(IV_LENGTH) may return
IVs == {Tuple([i \in 1..IV_LENGTH |-> 0]), Tuple([i \in 1..IV_LENGTH |-> i])}

KeyBytes(seed) == Tuple([i \in 1..KEY_LENGTH |-> (seed * i) % 256])

KeyA == Present(Base64Encode(KeyBytes(1)))

KeyB == Present(Base64Encode(KeyBytes(3)))

\* base64 of 16 bytes, and of 33
ShortKey == Present(Base64Encode(SubSeq(KeyBytes(1), 1, 16)))

LongKey == Present(Base64Encode(KeyBytes(1) \o <<0>>))

Empty == Present(<<>>)

KeyIdK1 == Present(<<107, 49>>)

ValidKeys == {KeyA, KeyB}

KeyValues == {Absent, Empty, KeyA, ShortKey, LongKey}

KeyIdValues == {Absent, Empty, KeyIdK1}

Fields == {"iv", "ciphertext", "tag"}

Bits == 0..7

\* plaintext sizes in bytes, in steps, up to and past the length guard
LengthStep == 128

MaxSteps == 100

PlainLengths == {LengthStep * k : k \in 0..MaxSteps}

WellFormed(units) ==
    \A i \in 1..Len(units) :
        /\ IsHigh(units[i]) => i < Len(units) /\ IsLow(units[i + 1])
        /\ IsLow(units[i]) => i > 1 /\ IsHigh(units[i - 1])

(***************************************************************************)
(* The state machine of the cipher. The two functions keep no state of     *)
(* their own, so one exchange at a time is followed: a call of             *)
(* encryptToB64, the envelope at rest (where one bit of it may be          *)
(* flipped), a call of decryptFromB64 on it. The environment may change    *)
(* at any point before the second call.                                    *)
(***************************************************************************)
Configure(k, id) ==
    /\ ~ opened.called
    /\ env' = [key |-> k, keyId |-> id]
    /\ UNCHANGED <<sealed, wire, opened, measured, dbVars, configVars>>

Seal(p, iv) ==
    /\ ~ sealed.called
    /\ LET out == EncryptToB64(env, p, iv)
       IN  /\ sealed' = [called |-> TRUE, plaintext |-> p, iv |-> iv,
                         env |-> env, out |-> out]
           /\ wire' = [text |-> out.val, flipped |-> "none"]
    /\ UNCHANGED <<env, opened, measured, dbVars, configVars>>

\* the envelope of wire, field by field
PayloadOf(text) == JsonParse(Utf8Decode(Base64Decode(text))).val

WithField(payload, field, bytes) ==
    Base64Encode(Utf8Encode(JsonStringify(
        [payload EXCEPT ![field] = Base64Encode(bytes)])))

\* one bit of one byte of the nonce, the ciphertext or the tag is flipped
Tamper(field) ==
    /\ sealed.called /\ sealed.out.ok
    /\ wire.flipped = "none"
    /\ ~ opened.called
    /\ LET payload == PayloadOf(wire.text)
           bytes == Base64Decode(payload[field])
       IN  \E i \in 1..Len(bytes), bit \in Bits :
               wire' = [text |-> WithField(payload, field,
                                    [bytes EXCEPT ![i] = FlipBit(@, bit)]),
                        flipped |-> field]
    /\ UNCHANGED <<env, sealed, opened, measured, dbVars, configVars>>

Open ==
    /\ sealed.called /\ sealed.out.ok
    /\ ~ opened.called
    /\ opened' = [called |-> TRUE, env |-> env,
                  out |-> DecryptFromB64(env, wire.text)]
    /\ UNCHANGED <<env, sealed, wire, measured, dbVars, configVars>>

\* the exchange is over
Forget ==
    /\ sealed.called
    /\ opened.called \/ ~ sealed.out.ok
    /\ sealed' = NotSealed
    /\ wire' = NoWire
    /\ opened' = NotOpened
    /\ UNCHANGED <<env, measured, dbVars, configVars>>

SealOfLength(n) ==
    /\ LET out == EncryptLength(env, n)
       IN  measured' = [called |-> TRUE, bytes |-> n, env |-> env, ok |-> out.ok,
                        payload |-> out.payload, length |-> out.length]
    /\ UNCHANGED <<env, sealed, wire, opened, dbVars, configVars>>

\* round trips, under keys that are well formed
NextCipher ==
    \/ \E k \in ValidKeys : Configure(k, KeyIdK1)
    \/ \E p \in Plaintexts, iv \in IVs : Seal(p, iv)
    \/ Open
    \/ Forget

SpecCipher == Init /\ [][NextCipher]_vars

\* every bit of every field of the envelopes of the plaintexts of at most
\* one code unit
NextTamper ==
    \/ \E k \in ValidKeys : Configure(k, KeyIdK1)
    \/ \E p \in {q \in Plaintexts : Len(q) <= 1}, iv \in IVs : Seal(p, iv)
    \/ \E field \in Fields : Tamper(field)
    \/ Open
    \/ Forget

SpecTamper == Init /\ [][NextTamper]_vars

\* every way the two environment variables can be set, or not
NextKeys ==
    \/ \E k \in KeyValues, id \in KeyIdValues : Configure(k, id)
    \/ \E p \in {<<>>, <<65>>}, iv \in IVs : Seal(p, iv)
    \/ Open
    \/ Forget

SpecKeys == Init /\ [][NextKeys]_vars

\* the sizes of what encryptToB64 measures and of what it returns
NextSize ==
    \/ \E id \in {Absent, KeyIdK1} : Configure(KeyA, id)
    \/ \E n \in PlainLengths : SealOfLength(n)

SpecSize == Init /\ [][NextSize]_vars

(***************************************************************************)
(* Properties of the cipher.                                               *)
(***************************************************************************)
SameKey == sealed.env.key = opened.env.key

AuthError == "Unsupported state or unable to authenticate data"

\* The sizes that EncryptLength works out are the sizes of what
\* EncryptToB64 builds.
EncryptLengthAgrees ==
    sealed.called =>
        LET out == EncryptLength(sealed.env, Len(Utf8Encode(sealed.plaintext)))
        IN  /\ out.ok = sealed.out.ok
            /\ out.ok => out.length = Len(sealed.out.val)

\* C5, as amended: a plaintext that is well-formed UTF-16 (no surrogate
\* without its other half), sealed and then opened under the same key,
\* comes back exactly as it was.
C5_RoundTripWellFormed ==
    (opened.called /\ SameKey /\ WellFormed(sealed.plaintext)) =>
        /\ opened.out.ok
        /\ opened.out.val = sealed.plaintext

\* U+1F600, two code units and four bytes, has made the round trip
C5_Witness ==
    /\ opened.called /\ SameKey
    /\ sealed.plaintext = <<55357, 56832>>
    /\ opened.out.ok
    /\ opened.out.val = <<55357, 56832>>

\* C5 as stated: every plaintext string, sealed and then opened under the
\* same key, comes back exactly as it was.
C5_RoundTrip ==
    (opened.called /\ SameKey) =>
        /\ opened.out.ok
        /\ opened.out.val = sealed.plaintext

\* C6: once one bit of the nonce, the ciphertext or the tag of an envelope
\* has been flipped, decryptFromB64 throws the authentication error of
\* final() and returns no plaintext.
C6_TamperDetected ==
    (opened.called /\ wire.flipped # "none") =>
        /\ ~ opened.out.ok
        /\ opened.out.err = AuthError
        /\ opened.out.val = <<>>

\* an envelope of a plaintext that is not empty, a bit of whose ciphertext
\* was flipped, has been opened under the key that sealed it
C6_Witness ==
    /\ opened.called /\ SameKey
    /\ wire.flipped = "ciphertext"
    /\ wire.text # sealed.out.val
    /\ sealed.plaintext # <<>>
    /\ ~ opened.out.ok

\* C7: a string that encryptToB64 returns is at most 16384 bytes long.
C7_ReturnedStringWithinCap ==
    (measured.called /\ measured.ok) => measured.length <= MAX_PAYLOAD

\* C8: encryptToB64 returns an envelope exactly when the key and the key
\* identifier are both set and the key decodes to 32 bytes, and the keyId of
\* the envelope is then the configured identifier.
C8_SealNeedsKeyAndKeyId ==
    sealed.called =>
        LET e == sealed.env
            good == /\ e.key.set
                    /\ e.keyId.set
                    /\ Len(Base64Decode(e.key.val)) = KEY_LENGTH
        IN  /\ sealed.out.ok <=> good
            /\ sealed.out.ok => PayloadOf(sealed.out.val).keyId = e.keyId.val

(***************************************************************************)
(* The configuration loader (src/unnamed/part_001, lines 1-210).           *)
(* Values of environment variables are texts: sequences of character       *)
(* codes.                                                                  *)
(***************************************************************************)
\* the texts that the loader compares with, and those the environments of
\* the model are made of
Text ==
    [production |-> <<112, 114, 111, 100, 117, 99, 116, 105, 111, 110>>,
     test |-> <<116, 101, 115, 116>>,
     development |-> <<100, 101, 118, 101, 108, 111, 112, 109, 101, 110, 116>>,
     one |-> <<49>>,
     true |-> <<116, 114, 117, 101>>,
     yes |-> <<121, 101, 115>>,
     on |-> <<111, 110>>,
     upperTrue |-> <<84, 82, 85, 69>>,
     false |-> <<102, 97, 108, 115, 101>>,
     port8080 |-> <<56, 48, 56, 48>>,
     port0 |-> <<48>>,
     port70000 |-> <<55, 48, 48, 48, 48>>,
     abc |-> <<97, 98, 99>>,
     phone |-> <<43, 49, 53, 53, 53, 49, 50, 51, 52, 53, 54, 55>>,
     local |-> <<53, 53, 53, 49, 50, 51, 52>>,
     url |-> <<112, 111, 115, 116, 103, 114, 101, 115, 58, 47, 47, 100, 98, 47, 97, 112, 112>>,
     secret |-> <<115, 51, 99, 114, 101, 116>>,
     keyId |-> <<107, 49>>,
     issuer |-> <<104, 116, 116, 112, 115, 58, 47, 47, 97, 99, 99, 111, 117, 110, 116, 115, 46, 103, 111, 111, 103, 108, 101, 46, 99, 111, 109>>]

\* NODE_ENV decides the mode before any env file is read
IsProduction(e) == e["NODE_ENV"] = Present(Text.production)

IsTest(e) == e["NODE_ENV"] = Present(Text.test)

IsDevelopment(e) == ~ IsProduction(e) /\ ~ IsTest(e)

\* dotenv.config({ path, override: true })
DotenvOverride(e, file) ==
    IF file.exists THEN [e EXCEPT ![file.name] = Present(file.val)] ELSE e

\* dotenv.config({ path }): a variable of the file is set only when
\* process.env does not define it yet
DotenvConfig(e, file) ==
    IF file.exists /\ ~ e[file.name].set
    THEN [e EXCEPT ![file.name] = Present(file.val)]
    ELSE e

\* in development .env.local is read first, then .env; otherwise neither
LoadEnvFiles(e, f) ==
    IF IsDevelopment(e)
    THEN DotenvConfig(DotenvConfig(e, f.local), f.env)
    ELSE e

\* String.prototype.toLowerCase, on ASCII
ToLowerCase(v) ==
    Tuple([i \in 1..Len(v) |-> IF v[i] \in 65..90 THEN v[i] + 32 ELSE v[i]])

boolFromEnv(v, fallback) ==
    IF ~ v.set THEN fallback
    ELSE ToLowerCase(v.val) \in {Text.one, Text.true, Text.yes, Text.on}

IsDigits(v) == \A i \in 1..Len(v) : v[i] \in 48..57

RECURSIVE Decimal(_)
Decimal(v) ==
    IF v = <<>> THEN 0
    ELSE (Decimal(SubSeq(v, 1, Len(v) - 1)) * 10) + (v[Len(v)] - 48)

\* Number(v) for a text of decimal digits, the empty text (0) and a text
\* with a character that no number has (NaN)
ToNumber(v) ==
    IF IsDigits(v) THEN [nan |-> FALSE, val |-> Decimal(v)]
    ELSE [nan |-> TRUE, val |-> 0]

\* /^\+\d{7,15}$/
IsE164(v) ==
    /\ Len(v) \in 8..16
    /\ v[1] = 43
    /\ IsDigits(SubSeq(v, 2, Len(v)))

Issue(path, message) == [path |-> path, message |-> message]

\* z.string().min(1)
RequiredText(name, v) ==
    IF ~ v.set THEN {Issue(name, "Required")}
    ELSE IF v.val = <<>>
    THEN {Issue(name, "String must contain at least 1 character(s)")}
    ELSE {}

\* base64Key32: the refinement also runs on a text that min(1) rejected
Base64Key32(name, v) ==
    RequiredText(name, v) \cup
    (IF v.set /\ Len(Base64Decode(v.val)) # KEY_LENGTH
     THEN {Issue(name, "must be base64-encoded 32-byte key")}
     ELSE {})

MIN_PORT == 1

MAX_PORT == 65535

DEFAULT_PORT == 4000

\* z.coerce.number().int().min(1).max(65535).default(4000)
PortIssues(name, v) ==
    IF ~ v.set THEN {}
    ELSE IF ToNumber(v.val).nan
    THEN {Issue(name, "Expected number, received nan")}
    ELSE IF ToNumber(v.val).val < MIN_PORT
    THEN {Issue(name, "Number must be greater than or equal to 1")}
    ELSE IF ToNumber(v.val).val > MAX_PORT
    THEN {Issue(name, "Number must be less than or equal to 65535")}
    ELSE {}

\* the issues of one field of the object schema; the other fields that the
\* model follows are z.string().optional()
FieldIssues(name, v) ==
    CASE name = "PORT" -> PortIssues(name, v)
      [] name \in {"DATABASE_URL", "TOKEN_ENCRYPTION_KEY_ID"} -> RequiredText(name, v)
      [] name = "TOKEN_ENCRYPTION_KEY" -> Base64Key32(name, v)
      [] OTHER -> {}

\* the object schema collects the issues of all its fields
ObjectIssues(e) == UNION {FieldIssues(n, e[n]) : n \in Names \ {"NODE_ENV"}}

Features(e, isDevelopment) ==
    [sms |-> boolFromEnv(e["FEATURE_ENABLE_SMS"], isDevelopment),
     tasks |-> boolFromEnv(e["FEATURE_ENABLE_TASKS"], isDevelopment),
     push |-> boolFromEnv(e["FEATURE_ENABLE_PUSH"], isDevelopment),
     classifier |-> boolFromEnv(e["FEATURE_ENABLE_CLASSIFIER"], isDevelopment)]

\* the conditional requirements of the transform, in the order of the code
Rules ==
    <<"classifier", "smsCredentials", "oneSender", "fromNumber",
      "defaultSmsToInProd", "defaultSmsTo", "pushCredentials">>

\* the condition under which the transform throws for a rule, once it has
\* come as far as that rule
Violated(rule, e, isProduction, isDevelopment) ==
    LET features == Features(e, isDevelopment)
        hasService == ~ Falsy(e["TWILIO_MESSAGING_SERVICE_SID"])
        hasFrom == ~ Falsy(e["TWILIO_FROM_NUMBER"])
        allowDevTo == boolFromEnv(e["ALLOW_DEFAULT_SMS_TO_IN_PROD"], FALSE)
    IN  CASE rule = "classifier" ->
               features.classifier /\ Falsy(e["OPENAI_API_KEY"])
          [] rule = "smsCredentials" ->
               features.sms /\ (\/ Falsy(e["TWILIO_ACCOUNT_SID"])
                                \/ Falsy(e["TWILIO_AUTH_TOKEN"]))
          [] rule = "oneSender" ->
               features.sms /\ (hasService <=> hasFrom)
          [] rule = "fromNumber" ->
               features.sms /\ hasFrom /\ ~ IsE164(e["TWILIO_FROM_NUMBER"].val)
          [] rule = "defaultSmsToInProd" ->
               /\ features.sms /\ isProduction
               /\ ~ Falsy(e["TWILIO_DEFAULT_SMS_TO"]) /\ ~ allowDevTo
          [] rule = "defaultSmsTo" ->
               /\ features.sms /\ ~ isProduction
               /\ ~ Falsy(e["TWILIO_DEFAULT_SMS_TO"])
               /\ ~ IsE164(e["TWILIO_DEFAULT_SMS_TO"].val)
          [] rule = "pushCredentials" ->
               features.push /\ isDevelopment
               /\ Falsy(e["GOOGLE_APPLICATION_CREDENTIALS"])

\* what the transform throws for a rule: new Error(message), or the
\* ZodError of e164.parse
Thrown(rule) ==
    CASE rule = "classifier" ->
           [kind |-> "Error", message |->
            "OPENAI_API_KEY is required when FEATURE_ENABLE_CLASSIFIER=true"]
      [] rule = "smsCredentials" ->
           [kind |-> "Error", message |->
            "Twilio credentials required when FEATURE_ENABLE_SMS=true"]
      [] rule = "oneSender" ->
           [kind |-> "Error", message |->
            "Provide exactly one of TWILIO_MESSAGING_SERVICE_SID or TWILIO_FROM_NUMBER"]
      [] rule \in {"fromNumber", "defaultSmsTo"} ->
           [kind |-> "ZodError", message |-> "Invalid"]
      [] rule = "defaultSmsToInProd" ->
           [kind |-> "Error", message |->
            "TWILIO_DEFAULT_SMS_TO set in production without ALLOW_DEFAULT_SMS_TO_IN_PROD=true"]
      [] rule = "pushCredentials" ->
           [kind |-> "Error", message |->
            "GOOGLE_APPLICATION_CREDENTIALS is required in development for ADC"]

\* the object the transform returns; undefined is Absent
BuildConfig(e, isProduction, isTest, isDevelopment) ==
    [env |-> IF Falsy(e["NODE_ENV"]) THEN Text.development ELSE e["NODE_ENV"].val,
     isDevelopment |-> isDevelopment,
     isTest |-> isTest,
     isProduction |-> isProduction,
     app |-> [port |-> IF e["PORT"].set THEN ToNumber(e["PORT"].val).val
                       ELSE DEFAULT_PORT],
     db |-> [url |-> e["DATABASE_URL"].val],
     security |-> [tokenKeyB64 |-> e["TOKEN_ENCRYPTION_KEY"].val,
                   tokenKeyId |-> e["TOKEN_ENCRYPTION_KEY_ID"].val],
     google |-> [adcPath |-> e["GOOGLE_APPLICATION_CREDENTIALS"]],
     pubsub |-> [oidc |-> [issuer |-> Text.issuer]],
     openai |-> [apiKey |-> e["OPENAI_API_KEY"]],
     twilio |-> [accountSid |-> e["TWILIO_ACCOUNT_SID"],
                 authToken |-> e["TWILIO_AUTH_TOKEN"],
                 messagingServiceSid |-> e["TWILIO_MESSAGING_SERVICE_SID"],
                 fromNumber |-> e["TWILIO_FROM_NUMBER"],
                 defaultSmsTo |-> e["TWILIO_DEFAULT_SMS_TO"]],
     features |-> Features(e, isDevelopment)]

\* the transform runs on an object whose fields raised no issue; what it
\* throws is the first rule, in the order of the code, whose condition holds
Transform(e, isProduction, isTest, isDevelopment) ==
    LET broken == {i \in 1..Len(Rules) :
                       Violated(Rules[i], e, isProduction, isDevelopment)}
        first == Rules[CHOOSE i \in broken : \A j \in broken : i <= j]
    IN  IF broken = {}
        THEN [thrown |-> "none", issues |-> {},
              data |-> BuildConfig(e, isProduction, isTest, isDevelopment)]
        ELSE [thrown |-> Thrown(first).kind,
              issues |-> {Issue("", Thrown(first).message)},
              data |-> <<>>]

\* schema.safeParse(process.env) and the lines after it: with issues of the
\* fields the aggregated error is thrown and the transform never runs; what
\* the transform throws leaves safeParse as it is
SafeParse(e, isProduction, isTest, isDevelopment) ==
    IF ObjectIssues(e) # {}
    THEN [thrown |-> "ConfigurationError", issues |-> ObjectIssues(e),
          data |-> <<>>]
    ELSE Transform(e, isProduction, isTest, isDevelopment)

\* the evaluation of the module, from process.env e and the env files f
LoadConfig(e, f) ==
    LET loaded == LoadEnvFiles(e, f)
        parsed == SafeParse(loaded, IsProduction(e), IsTest(e), IsDevelopment(e))
    IN  [env |-> loaded, thrown |-> parsed.thrown, issues |-> parsed.issues,
         data |-> parsed.data]

(***************************************************************************)
(* Environments of the configuration loader, and its evaluation.           *)
(***************************************************************************)
\* a production deployment with its required variables and an SMS sender;
\* every feature flag is left to its default
Baseline ==
    [n \in Names |->
        CASE n = "NODE_ENV" -> Present(Text.production)
          [] n = "DATABASE_URL" -> Present(Text.url)
          [] n = "TOKEN_ENCRYPTION_KEY" -> KeyA
          [] n = "TOKEN_ENCRYPTION_KEY_ID" -> KeyIdK1
          [] n \in {"TWILIO_ACCOUNT_SID", "TWILIO_AUTH_TOKEN",
                    "TWILIO_MESSAGING_SERVICE_SID"} -> Present(Text.secret)
          [] OTHER -> Absent]

\* the values a variable takes
Values(n) ==
    CASE n = "NODE_ENV" -> {Absent, Present(Text.production), Present(Text.test)}
      [] n = "PORT" -> {Absent, Present(Text.port8080), Present(Text.port0),
                        Present(Text.port70000), Present(Text.abc)}
      [] n = "DATABASE_URL" -> {Absent, Empty, Present(Text.url)}
      [] n = "TOKEN_ENCRYPTION_KEY" -> {Absent, Empty, ShortKey, KeyA}
      [] n = "TOKEN_ENCRYPTION_KEY_ID" -> {Absent, KeyIdK1}
      [] n \in {"TWILIO_FROM_NUMBER", "TWILIO_DEFAULT_SMS_TO"} ->
           {Absent, Present(Text.phone), Present(Text.local)}
      [] n = "ALLOW_DEFAULT_SMS_TO_IN_PROD" -> {Absent, Present(Text.true)}
      [] n = "FEATURE_ENABLE_SMS" -> {Absent, Present(Text.upperTrue), Present(Text.false)}
      [] n = "FEATURE_ENABLE_CLASSIFIER" -> {Absent, Present(Text.true), Present(Text.false)}
      [] n = "FEATURE_ENABLE_PUSH" -> {Absent, Present(Text.yes), Present(Text.false)}
      [] n = "FEATURE_ENABLE_TASKS" -> {Absent, Present(Text.on)}
      [] OTHER -> {Absent, Present(Text.secret)}

\* the number of variables in which an environment differs from Baseline
MaxEdits == 2

Edits(e) == Cardinality({n \in Names : e[n] # Baseline[n]})

\* the assignment an env file is made of: a variable that the baseline
\* leaves undefined, and a value that Setenv gives to no variable but PORT
FileNames == {"OPENAI_API_KEY", "GOOGLE_APPLICATION_CREDENTIALS"}

FileValues == {Text.abc}

\* the process is started in the baseline environment
Provision ==
    /\ procEnv = NoVariables
    /\ cfg.state = "unloaded"
    /\ server = "idle"
    /\ procEnv' = Baseline
    /\ UNCHANGED <<files, cfg, server, dbVars, cipherVars>>

\* or in one that differs from it in a few variables
Setenv(n, v) ==
    /\ cfg.state = "unloaded"
    /\ server = "idle"
    /\ procEnv' = [procEnv EXCEPT ![n] = v]
    /\ Edits(procEnv') <= MaxEdits
    /\ UNCHANGED <<files, cfg, server, dbVars, cipherVars>>

\* the working directory holds .env.local (which = "local") or .env
PutEnvFile(which, n, v) ==
    /\ cfg.state = "unloaded"
    /\ ~ files[which].exists
    /\ files' = [files EXCEPT ![which] = [exists |-> TRUE, name |-> n, val |-> v]]
    /\ UNCHANGED <<procEnv, cfg, server, dbVars, cipherVars>>

\* the first import of the configuration module evaluates it
ImportConfig ==
    /\ cfg.state = "unloaded"
    /\ LET r == LoadConfig(procEnv, files)
       IN  /\ procEnv' = r.env
           /\ cfg' = [state |-> IF r.thrown = "none" THEN "loaded" ELSE "failed",
                      before |-> procEnv, thrown |-> r.thrown,
                      issues |-> r.issues, data |-> r.data, built |-> r.data]
    /\ UNCHANGED <<files, server, dbVars, cipherVars>>

NextConfig ==
    \/ Provision
    \/ \E n \in Names : \E v \in Values(n) : Setenv(n, v)
    \/ \E which \in {"local", "env"}, n \in FileNames, v \in FileValues :
           PutEnvFile(which, n, v)
    \/ ImportConfig

SpecConfig == Init /\ [][NextConfig]_vars

(***************************************************************************)
(* What the evaluation of the module reported, against what was wrong.     *)
(***************************************************************************)
\* the fields of the validated environment that break their own check
BrokenFields(e) == {n \in Names \ {"NODE_ENV"} : FieldIssues(n, e[n]) # {}}

\* the conditional requirements that it breaks
BrokenRules(e, isProduction, isDevelopment) ==
    {Rules[i] : i \in {j \in 1..Len(Rules) :
                          Violated(Rules[j], e, isProduction, isDevelopment)}}

\* C12: when the environment breaks several field checks and conditional
\* requirements at once, the module fails with the aggregated error, and
\* that error holds a message for every broken field and every broken
\* requirement.
C12_AllViolationsReported ==
    cfg.state # "unloaded" =>
        LET fields == BrokenFields(procEnv)
            rules == BrokenRules(procEnv, IsProduction(cfg.before),
                                 IsDevelopment(cfg.before))
        IN  fields \cup rules # {} =>
                /\ cfg.thrown = "ConfigurationError"
                /\ \A n \in fields : \E i \in cfg.issues : i.path = n
                /\ \A rule \in rules :
                       \E i \in cfg.issues : i.message = Thrown(rule).message

\* the part of C12 that the fields alone keep: every broken field has its
\* message in the aggregated error
FieldIssuesAggregated ==
    (cfg.state # "unloaded" /\ BrokenFields(procEnv) # {}) =>
        /\ cfg.thrown = "ConfigurationError"
        /\ \A n \in BrokenFields(procEnv) : \E i \in cfg.issues : i.path = n

\* the variables whose names the text of a thrown message holds
NamesIn(message) ==
    CASE message = Thrown("classifier").message ->
           {"OPENAI_API_KEY", "FEATURE_ENABLE_CLASSIFIER"}
      [] message = Thrown("smsCredentials").message -> {"FEATURE_ENABLE_SMS"}
      [] message = Thrown("oneSender").message ->
           {"TWILIO_MESSAGING_SERVICE_SID", "TWILIO_FROM_NUMBER"}
      [] message = Thrown("defaultSmsToInProd").message ->
           {"TWILIO_DEFAULT_SMS_TO", "ALLOW_DEFAULT_SMS_TO_IN_PROD"}
      [] message = Thrown("pushCredentials").message ->
           {"GOOGLE_APPLICATION_CREDENTIALS"}
      [] OTHER -> {}

\* the SMS credentials that the validated environment lacks
MissingCredentials(e) ==
    {n \in {"TWILIO_ACCOUNT_SID", "TWILIO_AUTH_TOKEN"} : Falsy(e[n])}

\* the sender options that it supplies
Senders(e) ==
    {n \in {"TWILIO_MESSAGING_SERVICE_SID", "TWILIO_FROM_NUMBER"} : ~ Falsy(e[n])}

SmsEnabled == Features(procEnv, IsDevelopment(cfg.before)).sms

\* C13: with the SMS flag enabled, the module fails when the account
\* identifier or the auth token is missing, and the error names every
\* missing field; it fails when both sender options are supplied, and when
\* neither is; it succeeds only with both credentials and exactly one
\* sender option.
C13_SmsRules ==
    (cfg.state # "unloaded" /\ SmsEnabled) =>
        /\ MissingCredentials(procEnv) # {} =>
               /\ cfg.state = "failed"
               /\ \E i \in cfg.issues :
                      MissingCredentials(procEnv) \subseteq
                          ({i.path} \cup NamesIn(i.message))
        /\ Cardinality(Senders(procEnv)) # 1 => cfg.state = "failed"
        /\ cfg.state = "loaded" =>
               /\ MissingCredentials(procEnv) = {}
               /\ Cardinality(Senders(procEnv)) = 1

\* C13 without the wording of the error: the failures and the successes
\* are as it says
SmsRulesEnforced ==
    (cfg.state # "unloaded" /\ SmsEnabled) =>
        /\ MissingCredentials(procEnv) # {} => cfg.state = "failed"
        /\ Cardinality(Senders(procEnv)) # 1 => cfg.state = "failed"
        /\ cfg.state = "loaded" =>
               /\ MissingCredentials(procEnv) = {}
               /\ Cardinality(Senders(procEnv)) = 1

\* C16 (as the code has it): evaluating the module in test or production
\* leaves process.env as it found it; in development every variable that
\* was defined keeps its value, and a variable is added only when an env
\* file assigns it, with the value of that file; this whether the
\* validation succeeds or fails.
C16_EnvKeptButForEnvFiles ==
    cfg.state # "unloaded" =>
        /\ ~ IsDevelopment(cfg.before) => procEnv = cfg.before
        /\ \A n \in Names :
               /\ cfg.before[n].set => procEnv[n] = cfg.before[n]
               /\ (~ cfg.before[n].set /\ procEnv[n].set) =>
                      \E which \in {"local", "env"} :
                          /\ files[which].exists
                          /\ files[which].name = n
                          /\ procEnv[n] = Present(files[which].val)

\* a development process whose env files assign a variable it defines and
\* one it lacks: the first is kept, the second added, and validation succeeds
C16_Witness ==
    /\ cfg.state = "loaded"
    /\ IsDevelopment(cfg.before)
    /\ files.local.exists /\ files.env.exists
    /\ cfg.before[files.local.name].set
    /\ procEnv[files.local.name] # Present(files.local.val)
    /\ ~ cfg.before[files.env.name].set
    /\ procEnv[files.env.name] = Present(files.env.val)

\* C16 (as stated): in development, test and production, and whether the
\* validation succeeds or fails, process.env after the evaluation of the
\* module is identical to process.env before it.
C16_EnvUnchanged == cfg.state # "unloaded" => procEnv = cfg.before

(***************************************************************************)
(* The entry point (src/server/src/index.ts). It imports fastify,          *)
(* @fastify/cors, node:fs/promises and node:path, and nothing else: the    *)
(* configuration module is not evaluated by the process it starts.         *)
(***************************************************************************)
\* Number(process.env.PORT ?? 4000)
ListenPort(e) ==
    IF e["PORT"].set THEN ToNumber(e["PORT"].val)
    ELSE [nan |-> FALSE, val |-> DEFAULT_PORT]

\* the ports that listen() takes: 0 asks for any free port
Listenable(port) == ~ port.nan /\ port.val \in 0..MAX_PORT

\* start() is called: the application is built, the routes are registered
Start ==
    /\ server = "idle"
    /\ server' = "starting"
    /\ UNCHANGED <<procEnv, files, cfg, dbVars, cipherVars>>

\* app.listen({ port, host }): the server listens, or listen() rejects a
\* port that is none and start().catch ends the process with exit(1)
Listen ==
    /\ server = "starting"
    /\ server' = IF Listenable(ListenPort(procEnv)) THEN "listening" ELSE "exited"
    /\ UNCHANGED <<procEnv, files, cfg, dbVars, cipherVars>>

\* the system refuses the port (it is in use, or reserved): exit(1) as well
ListenRefused ==
    /\ server = "starting"
    /\ server' = "exited"
    /\ UNCHANGED <<procEnv, files, cfg, dbVars, cipherVars>>

NextStartup ==
    \/ Provision
    \/ \E n \in Names : \E v \in Values(n) : Setenv(n, v)
    \/ Start
    \/ Listen
    \/ ListenRefused

SpecStartup == Init /\ [][NextStartup]_vars

\* C14: when the environment breaks a rule of the configuration (the
\* evaluation of the configuration module would throw), the server never
\* comes to listen.
C14_InvalidEnvNeverListens ==
    server = "listening" => LoadConfig(procEnv, files).thrown = "none"

\* the one rule that start() itself keeps: a PORT that is no port at all
\* ends the process
BadPortNeverListens ==
    server = "listening" => Listenable(ListenPort(procEnv))

(***************************************************************************)
(* The exported configuration object and writes to it.                     *)
(***************************************************************************)
\* the objects that Object.freeze(parsed.data) freezes, by their path from
\* config: the object it is given, and none of those it holds
FrozenObjects == {<<>>}

\* the properties that are written to
Paths ==
    {<<"env">>, <<"isProduction">>, <<"features">>, <<"features", "sms">>,
     <<"app", "port">>, <<"security", "tokenKeyB64">>,
     <<"pubsub", "oidc", "issuer">>}

RECURSIVE ValueAt(_, _)
ValueAt(object, path) ==
    IF path = <<>> THEN object ELSE ValueAt(object[Head(path)], Tail(path))

RECURSIVE WriteAt(_, _, _)
WriteAt(object, path, v) ==
    IF Len(path) = 1 THEN [object EXCEPT ![Head(path)] = v]
    ELSE [object EXCEPT ![Head(path)] = WriteAt(@, Tail(path), v)]

\* a value other than the one the property has, of its type
Replacement(path, old) ==
    CASE path \in {<<"isProduction">>, <<"features", "sms">>} -> ~ old
      [] path = <<"features">> -> [old EXCEPT !.sms = ~ @]
      [] path = <<"app", "port">> ->
           IF old = DEFAULT_PORT THEN Decimal(Text.port8080) ELSE DEFAULT_PORT
      [] OTHER -> IF old = Text.abc THEN Text.secret ELSE Text.abc

\* config.a.b = v in a module (strict mode): a property of a frozen object
\* keeps its value and the assignment throws a TypeError; any other
\* property takes the value
Assign(object, path, v) ==
    IF SubSeq(path, 1, Len(path) - 1) \in FrozenObjects THEN object
    ELSE WriteAt(object, path, v)

\* some code of the process assigns to a property of config
WriteConfig(path) ==
    /\ cfg.state = "loaded"
    /\ cfg' = [cfg EXCEPT !.data =
                   Assign(@, path, Replacement(path, ValueAt(@, path)))]
    /\ UNCHANGED <<procEnv, files, server, dbVars, cipherVars>>

NextFrozen ==
    \/ Provision
    \/ \E n \in Names : \E v \in Values(n) : Setenv(n, v)
    \/ ImportConfig
    \/ \E path \in Paths : WriteConfig(path)

SpecFrozen == Init /\ [][NextFrozen]_vars

\* C15: once the configuration object is constructed, every field of it, at
\* every depth, keeps the value it was constructed with, whatever is
\* written to it.
C15_ConfigNeverMutated == cfg.state = "loaded" => cfg.data = cfg.built

\* the part of C15 that Object.freeze keeps: the properties of config
\* itself hold what they held at construction, objects by identity
TopLevelFrozen ==
    cfg.state = "loaded" =>
        /\ cfg.data.env = cfg.built.env
        /\ cfg.data.isProduction = cfg.built.isProduction
        /\ cfg.data.isDevelopment = cfg.built.isDevelopment
        /\ cfg.data.isTest = cfg.built.isTest

============================================================================
